---------------------------- MODULE Spec2Model ----------------------------
(***************************************************************************)
(* A model of scripts/simulate_models.py: the value-set generator          *)
(* (rejection sampling), the two decision models (EpisodicModel and        *)
(* FeatureBasedModel), the game assembler and the trial orchestrator.      *)
(*                                                                         *)
(* Units.  Times are in tenths of a second (1.5 s = 15), probabilities and *)
(* uniform draws in hundredths (0.1 = 10), summed values and recall noise  *)
(* in tenths of a reward unit (reward 2 = 20, noise sd 0.5 = 5), logistic  *)
(* probabilities in millionths.                                            *)
(***************************************************************************)
EXTENDS Integers, Sequences, FiniteSets, TLC

VARIABLES
    \* generate_values_set: the rejection-sampling loop
    gen_pc,            \* "idle" | "draw" | "check" | "returned"
    values_set,        \* the candidate (then returned) array
    gen_rejected,      \* history: a candidate of this call was rejected
    \* FeatureBasedModel
    beta,              \* self.beta
    feature_values,    \* self.feature_values: label -> running sum
    fb_encoded,        \* history: the encode calls since the map was empty
    fb_call,           \* history: the last decide call and what it returned
    \* EpisodicModel
    episodic,          \* the constructor's parameters
    episodes,          \* self.episodes
    offer_feature,     \* decide's argument
    recall_order,      \* decide's permutation of the episode indices
    stream,            \* the random source's draws consumed so far
    frame,             \* decide's local state
    first_run,         \* history: parameters and result of the first decide
    \* simulate_trials
    trial,             \* number of trials started
    trial_pc,          \* "start" | "options" | "error"
    games,             \* initialize_games(8)
    game_number,
    true_values,
    opt_idx,           \* position of the options loop
    recalled_value,    \* the local the episodic decide result is unpacked to
    episodic_results,
    feature_results,
    rows_before        \* history: the rows appended before this trial

genVars   == <<gen_pc, values_set, gen_rejected>>
fbVars    == <<beta, feature_values, fb_encoded, fb_call>>
epVars    == <<episodic, episodes, offer_feature, recall_order, stream, frame,
               first_run>>
trialVars == <<trial, trial_pc, games, game_number, true_values, opt_idx,
               recalled_value, episodic_results, feature_results,
               rows_before>>
vars      == <<genVars, fbVars, epVars, trialVars>>

(***************************************************************************)
(* Helpers                                                                 *)
(***************************************************************************)

RECURSIVE SumSet(_, _)
\* the sum of f[i] over the finite index set S
SumSet(f, S) ==
    IF S = {} THEN 0
    ELSE LET i == CHOOSE j \in S : TRUE IN f[i] + SumSet(f, S \ {i})

Range(s) == {s[i] : i \in DOMAIN s}

(***************************************************************************)
(* Value Set Generator                                                     *)
(***************************************************************************)
\* the count initialize_games passes to generate_values_set
NumValues == 6

\* random.randint(-2, 2)
RandInt == -2 .. 2

\* every array generate_random_sub_array can build: each entry is a draw of
\* randint(-2, 2), redrawn while it is 0
generate_random_sub_array(num_values) ==
    [1 .. num_values -> {random_value \in RandInt : random_value # 0}]

\* the six sums of the num_values == 6 branch, in the order of the source
partial_sums(v) ==
    << v[1] + v[2] + v[3],
       v[4] + v[5],
       v[6],
       v[1] + v[4] + v[6],
       v[2] + v[5],
       v[3] >>

positive_count(v) == Cardinality({i \in DOMAIN v : v[i] > 0})
negative_count(v) == Cardinality({i \in DOMAIN v : v[i] < 0})

\* mutant of the sign-count test: an off-by-one that demands only two of a sign
count_test_off_by_one(v, num_values) ==
    2 * positive_count(v) < num_values - 2
        \/ 2 * negative_count(v) < num_values - 2

\* positive_count < num_values / 2 or negative_count < num_values / 2
too_few_of_a_sign(v, num_values) ==
    2 * positive_count(v) < num_values \/ 2 * negative_count(v) < num_values

\* mutant of the validity test: a test no array passes (<= for <)
never_valid(v, num_values) ==
    ~ (2 * positive_count(v) <= num_values
         \/ 2 * negative_count(v) <= num_values)

\* mutant of the validity test: the sum of items 4 and 5 is left out of the
\* test that no sum is zero
valid_with_zero_pair_sum(v, num_values) ==
    /\ ~ too_few_of_a_sign(v, num_values)
    /\ num_values = 6
    /\ \E i \in 1 .. 6 : partial_sums(v)[i] < 0
    /\ \E i \in 1 .. 6 : partial_sums(v)[i] > 0
    /\ \A i \in {1, 3, 4, 5, 6} : partial_sums(v)[i] # 0

is_valid_values_set(v, num_values) ==
    IF too_few_of_a_sign(v, num_values) THEN FALSE
    ELSE IF num_values = 6
         THEN LET s == partial_sums(v)
                  condition1_met == \E i \in 1 .. 6 : s[i] < 0
                  condition2_met == \E i \in 1 .. 6 : s[i] > 0
                  condition3_met == \A i \in 1 .. 6 : s[i] # 0
              IN  condition1_met /\ condition2_met /\ condition3_met
         ELSE FALSE

\* generate_values_set is called
GenCall ==
    /\ gen_pc \in {"idle", "returned"}
    /\ gen_pc' = "draw"
    /\ values_set' = <<>>
    /\ gen_rejected' = FALSE
    /\ UNCHANGED <<fbVars, epVars, trialVars>>

\* values_set = generate_random_sub_array(num_values)
GenDraw ==
    /\ gen_pc = "draw"
    /\ \E a \in generate_random_sub_array(NumValues) : values_set' = a
    /\ gen_pc' = "check"
    /\ UNCHANGED <<gen_rejected, fbVars, epVars, trialVars>>

\* if is_valid_values_set(values_set, num_values): return values_set
GenAccept ==
    /\ gen_pc = "check"
    /\ is_valid_values_set(values_set, NumValues) = TRUE
    /\ gen_pc' = "returned"
    /\ UNCHANGED <<values_set, gen_rejected, fbVars, epVars, trialVars>>

\* otherwise the while True loop goes round again; the rejected candidate
\* is never read again (the next round overwrites it)
GenReject ==
    /\ gen_pc = "check"
    /\ ~ is_valid_values_set(values_set, NumValues)
    /\ gen_pc' = "draw"
    /\ values_set' = <<>>
    /\ gen_rejected' = TRUE
    /\ UNCHANGED <<fbVars, epVars, trialVars>>

\* every array a call of generate_values_set can return
generate_values_set(num_values) ==
    {a \in generate_random_sub_array(num_values) :
        is_valid_values_set(a, num_values)}


(***************************************************************************)
(* Feature-Based Decision Model                                            *)
(***************************************************************************)
\* an empty dict
EmptyMap == [f \in {} |-> 0]

\* one round of encode's loop, a mutant: the sum is overwritten, not added to
fb_add_overwrites(fv, feature, reward) ==
    [f \in DOMAIN fv \cup {feature} |-> IF f = feature THEN reward ELSE fv[f]]

\* one round of encode's loop over item_features
fb_add(fv, feature, reward) ==
    IF feature \in DOMAIN fv
    THEN [fv EXCEPT ![feature] = @ + reward]
    ELSE [f \in DOMAIN fv \cup {feature} |->
            IF f = feature THEN reward ELSE fv[f]]

\* FeatureBasedModel.encode: the loop visits item_features[0], item_features[1]
fb_encode(fv, item_features, reward) ==
    fb_add(fb_add(fv, item_features[1], reward), item_features[2], reward)

\* floor(10^6 / (1 + exp(-x))) for x in -13 .. 14
LogisticTable ==
    << 2, 6, 16, 45, 123, 335, 911, 2472, 6692, 17986, 47425, 119202, 268941,
       500000,
       731058, 880797, 952574, 982013, 993307, 997527, 999088, 999664, 999876,
       999954, 999983, 999993, 999997, 999999 >>

\* p_accept = 1 / (1 + np.exp(-self.beta * value)), in millionths; in
\* double precision the quotient is exactly 1.0 from x = 37 on and is a
\* positive number below 0.000001 for every x < -13
Logistic(x) ==
    IF x >= 37 THEN 1000000
    ELSE IF x > 14 THEN 999999
    ELSE IF x < -13 THEN 1
    ELSE LogisticTable[x + 14]

\* the constant response time decide returns
FeatureRT == 2

\* a mutant of decide: the last known element of the pair is used
fb_decide_last_match(fv, b, offer, u) ==
    IF offer[2] \in DOMAIN fv
    THEN [choice |-> IF u < Logistic(b * fv[offer[2]]) THEN 1 ELSE 0,
          rt |-> FeatureRT, feature_values |-> fv]
    ELSE IF offer[1] \in DOMAIN fv
    THEN [choice |-> IF u < Logistic(b * fv[offer[1]]) THEN 1 ELSE 0,
          rt |-> FeatureRT, feature_values |-> fv]
    ELSE [choice |-> 0, rt |-> FeatureRT, feature_values |-> fv]

\* FeatureBasedModel.decide, u the draw of np.random.random() in millionths;
\* the result carries the map as the call leaves it
fb_decide(fv, b, offer, u) ==
    IF offer[1] \in DOMAIN fv
    THEN [choice |-> IF u < Logistic(b * fv[offer[1]]) THEN 1 ELSE 0,
          rt |-> FeatureRT, feature_values |-> fv]
    ELSE IF offer[2] \in DOMAIN fv
    THEN [choice |-> IF u < Logistic(b * fv[offer[2]]) THEN 1 ELSE 0,
          rt |-> FeatureRT, feature_values |-> fv]
    ELSE [choice |-> 0, rt |-> FeatureRT, feature_values |-> fv]

NoCall == [made |-> FALSE]

\* the inputs the feature model is driven with
MaxEncodes == 3
FBLabels == {"Food", "Blue"}
FBPairs == FBLabels \X FBLabels
FBRewards == {-1, 2}
FBOffers == {<<"Food", "">>, <<"", "Blue">>, <<"Food", "Blue">>,
             <<"Blue", "Food">>, <<"Scene", "">>}
FBUniforms == {5000, 500000, 995000}
FBBetas == {1, 5}

FBEncode(item_features, reward) ==
    /\ Len(fb_encoded) < MaxEncodes
    /\ feature_values' = fb_encode(feature_values, item_features, reward)
    /\ fb_encoded' = Append(fb_encoded,
                            [item_features |-> item_features, reward |-> reward])
    /\ fb_call' = NoCall
    /\ UNCHANGED <<beta, genVars, epVars, trialVars>>

FBDecide(offer, u) ==
    LET r == fb_decide(feature_values, beta, offer, u)
    IN  /\ fb_call' = [made |-> TRUE, offer |-> offer, u |-> u,
                       before |-> feature_values,
                       choice |-> r.choice, rt |-> r.rt]
        /\ feature_values' = r.feature_values
        /\ UNCHANGED <<beta, fb_encoded, genVars, epVars, trialVars>>

(***************************************************************************)
(* Episodic Decision Model                                                 *)
(***************************************************************************)
\* The process-wide random source is a stream of raw draws; a call of
\* np.random.random() or np.random.normal() consumes the next one and reads
\* it as a uniform number (hundredths) or as a standard normal number.
RawDraws == {0, 1}
Uniform(raw) == IF raw = 0 THEN 15 ELSE 45
StdNormal(raw) == IF raw = 0 THEN -1 ELSE 1

\* np.random.normal(0, sd), in tenths of a reward unit
Normal(raw, sd) == sd * StdNormal(raw)

RECURSIVE Orderings(_)
\* the sequences that list each element of the set S once
Orderings(S) ==
    IF S = {} THEN {<<>>}
    ELSE UNION {{<<x>> \o q : q \in Orderings(S \ {x})} : x \in S}

\* the orders np.random.permutation(n) can return (indices from 1)
permutation(n) == Orderings(1 .. n)

\* Episode(item_features, reward)
Episode(item_features, reward) ==
    [item_features |-> item_features, reward |-> reward]

\* EpisodicModel.encode
ep_encode(eps, item_features, reward) ==
    Append(eps, Episode(item_features, reward))

\* a mutant of the match test: substring containment, under which the empty
\* placeholder is found in every label
matches_as_substring(offer, episode) ==
    \/ offer[1] \in Range(episode.item_features) \/ offer[1] = ""
    \/ offer[2] \in Range(episode.item_features) \/ offer[2] = ""

\* offer_feature[0] in episode.item_features or
\* offer_feature[1] in episode.item_features (membership in a tuple)
matches(offer, episode) ==
    \/ offer[1] \in Range(episode.item_features)
    \/ offer[2] \in Range(episode.item_features)

\* a mutant of the stop test: the comparison inverted
should_stop_inverted(m, n_recalled, u) == u > m.p_stop * (n_recalled + 1)

\* np.random.random() < self.p_stop * (n_recalled + 1)
should_stop(m, n_recalled, u) == u < m.p_stop * (n_recalled + 1)

\* a mutant of the time test: >= for >
out_of_time_at_limit(m, elapsed_time) ==
    elapsed_time + m.recall_time >= m.max_decision_time

\* elapsed_time + next_recall_time > self.max_decision_time
out_of_time(m, elapsed_time) ==
    elapsed_time + m.recall_time > m.max_decision_time

\* decide's locals before the loop; k counts the loop's rounds, pos the draws
\* consumed, broke records how the loop ended
decide_begin(m) ==
    [pc |-> "loop", k |-> 0, pos |-> 0, broke |-> "no",
     elapsed_time |-> m.non_decision_time,
     summed_value |-> 0,
     n_recalled |-> 0]

\* one round of decide's for loop (or its end), reading its draws from strm
decide_iter(m, eps, offer, order, fr, strm) ==
    IF fr.k = Len(order)
    THEN [fr EXCEPT !.pc = "done"]
    ELSE IF should_stop(m, fr.n_recalled, Uniform(strm[fr.pos + 1]))
    THEN [fr EXCEPT !.pc = "done", !.broke = "stop", !.pos = @ + 1]
    ELSE IF out_of_time(m, fr.elapsed_time)
    THEN [fr EXCEPT !.pc = "done", !.broke = "time", !.pos = @ + 1]
    ELSE LET episode == eps[order[fr.k + 1]]
             recalled == [fr EXCEPT !.k = @ + 1,
                                    !.elapsed_time = @ + m.recall_time,
                                    !.n_recalled = @ + 1]
         IN  IF matches(offer, episode)
             THEN [recalled EXCEPT
                     !.pos = fr.pos + 2,
                     !.summed_value =
                         @ + 10 * episode.reward
                           + Normal(strm[fr.pos + 2], m.recall_noise)]
             ELSE [recalled EXCEPT !.pos = fr.pos + 1]

RECURSIVE decide_loop(_, _, _, _, _, _)
\* the whole loop, from frame fr on (the frame after a round is bound as a
\* value before the loop goes on)
decide_loop(m, eps, offer, order, fr, strm) ==
    IF fr.pc = "done" THEN fr
    ELSE CHOOSE last \in
            {decide_loop(m, eps, offer, order, next, strm) :
                next \in {decide_iter(m, eps, offer, order, fr, strm)}} :
            TRUE

\* what decide returns
decide_result(fr) ==
    [choice |-> IF fr.summed_value > 0 THEN 1 ELSE 0,
     rt |-> fr.elapsed_time,
     n_recalled |-> fr.n_recalled,
     summed_value |-> fr.summed_value]

Idle == [pc |-> "idle"]
NoRun == [made |-> FALSE]

\* the inputs the episodic model is driven with
MaxEpisodes == 2
EpisodeSamples ==
    { Episode(<<"Food", "Blue">>, 2),
      Episode(<<"Animal", "Blue">>, -1),
      Episode(<<"", "Red">>, 1) }
OfferSamples == {<<"Food", "">>, <<"Blue", "">>}
NonDecisionTimes == {15, 40}
RecallTimes == {0, 5}
RecallNoises == {0, 5}
StopProbabilities == {0, 10, 30}
MaxDecisionTimes == {22, 25, 75}
ParamSettings ==
    [non_decision_time : NonDecisionTimes, recall_time : RecallTimes,
     recall_noise : RecallNoises, p_stop : StopProbabilities,
     max_decision_time : MaxDecisionTimes]

\* the parameters simulate_trials constructs its episodic model with
TrialParams ==
    [non_decision_time |-> 15, recall_time |-> 5, recall_noise |-> 5,
     p_stop |-> 10, max_decision_time |-> 75]

EpEncode(item_features, reward) ==
    /\ frame = Idle
    /\ Len(episodes) < MaxEpisodes
    /\ episodes' = ep_encode(episodes, item_features, reward)
    /\ UNCHANGED <<episodic, offer_feature, recall_order, stream, frame,
                   first_run, genVars, fbVars, trialVars>>

\* decide is entered: the permutation is drawn and the locals are set
EpDecideCall(offer, order) ==
    /\ frame = Idle
    /\ offer_feature' = offer
    /\ recall_order' = order
    /\ frame' = decide_begin(episodic)
    /\ UNCHANGED <<episodic, episodes, stream, first_run,
                   genVars, fbVars, trialVars>>

\* one round of the loop; draws beyond the recorded stream are new draws
EpDecideStep ==
    /\ frame.pc = "loop"
    /\ \E d1 \in RawDraws, d2 \in RawDraws :
         LET have == Len(stream)
             strm == [i \in 1 .. frame.pos + 2 |->
                        IF i <= have THEN stream[i]
                        ELSE IF i = frame.pos + 1 THEN d1 ELSE d2]
             next == decide_iter(episodic, episodes, offer_feature,
                                 recall_order, frame, strm)
         IN  /\ frame' = next
             /\ stream' = IF next.pos > have
                          THEN SubSeq(strm, 1, next.pos) ELSE stream
    /\ UNCHANGED <<episodic, episodes, offer_feature, recall_order,
                   first_run, genVars, fbVars, trialVars>>

\* the same decide is run again from the same seed: the same permutation and
\* the same stream of draws, with another stop probability and time budget
EpRerun(p_stop, max_decision_time) ==
    /\ frame.pc = "done"
    /\ ~ first_run.made
    /\ first_run' = [made |-> TRUE, params |-> episodic,
                     result |-> decide_result(frame)]
    /\ episodic' = [episodic EXCEPT !.p_stop = p_stop,
                                    !.max_decision_time = max_decision_time]
    /\ frame' = decide_begin(episodic')
    /\ UNCHANGED <<episodes, offer_feature, recall_order, stream,
                   genVars, fbVars, trialVars>>

(***************************************************************************)
(* Stimulus Generator and Game Assembler                                   *)
(***************************************************************************)
\* the curr_stims == 1 branch
full_item_set_1 ==
    << << "Food_Blue", "Food_Green", "Food_Red", "Object_Blue", "Object_Green", "Scene_Blue" >>,
       << "Scene_Yellow", "Scene_Green", "Scene_Blue", "Food_Yellow", "Food_Green", "Animal_Yellow" >>,
       << "Object_Red", "Object_Green", "Object_Yellow", "Animal_Red", "Animal_Green", "Scene_Red" >>,
       << "Object_Blue", "Object_Yellow", "Object_Red", "Animal_Blue", "Animal_Yellow", "Food_Blue" >>,
       << "Scene_Green", "Scene_Blue", "Scene_Yellow", "Animal_Green", "Animal_Blue", "Object_Green" >>,
       << "Food_Red", "Food_Yellow", "Food_Blue", "Animal_Red", "Animal_Yellow", "Scene_Red" >>,
       << "Scene_Yellow", "Scene_Green", "Scene_Red", "Food_Yellow", "Food_Green", "Object_Yellow" >>,
       << "Animal_Red", "Animal_Blue", "Animal_Green", "Object_Red", "Object_Blue", "Food_Red" >> >>
full_dec_set_1 ==
    << << "Object", "Green", "Red", "Scene", "Blue", "Food" >>,
       << "Scene", "Food", "Animal", "Yellow", "Blue", "Green" >>,
       << "Red", "Green", "Object", "Yellow", "Animal", "Scene" >>,
       << "Food", "Yellow", "Animal", "Red", "Blue", "Object" >>,
       << "Animal", "Blue", "Scene", "Green", "Yellow", "Object" >>,
       << "Yellow", "Animal", "Food", "Scene", "Blue", "Red" >>,
       << "Food", "Green", "Yellow", "Scene", "Object", "Red" >>,
       << "Red", "Object", "Green", "Blue", "Animal", "Food" >> >>
\* the curr_stims == 2 branch
full_item_set_2 ==
    << << "Object_Blue", "Object_Green", "Object_Yellow", "Animal_Blue", "Animal_Green", "Food_Blue" >>,
       << "Scene_Red", "Scene_Blue", "Scene_Green", "Object_Red", "Object_Blue", "Food_Red" >>,
       << "Food_Yellow", "Food_Red", "Food_Green", "Animal_Yellow", "Animal_Red", "Scene_Yellow" >>,
       << "Animal_Yellow", "Animal_Blue", "Animal_Red", "Scene_Yellow", "Scene_Blue", "Object_Yellow" >>,
       << "Food_Green", "Food_Yellow", "Food_Blue", "Animal_Green", "Animal_Yellow", "Scene_Green" >>,
       << "Food_Green", "Food_Red", "Food_Yellow", "Scene_Green", "Scene_Red", "Object_Green" >>,
       << "Scene_Red", "Scene_Yellow", "Scene_Blue", "Object_Red", "Object_Yellow", "Animal_Red" >>,
       << "Object_Blue", "Object_Green", "Object_Red", "Animal_Blue", "Animal_Green", "Food_Blue" >> >>
full_dec_set_2 ==
    << << "Object", "Blue", "Yellow", "Animal", "Food", "Green" >>,
       << "Food", "Red", "Green", "Blue", "Object", "Scene" >>,
       << "Scene", "Food", "Red", "Green", "Yellow", "Animal" >>,
       << "Object", "Animal", "Scene", "Yellow", "Red", "Blue" >>,
       << "Scene", "Animal", "Green", "Blue", "Food", "Yellow" >>,
       << "Green", "Scene", "Yellow", "Red", "Food", "Object" >>,
       << "Scene", "Yellow", "Red", "Object", "Blue", "Animal" >>,
       << "Food", "Object", "Blue", "Green", "Red", "Animal" >> >>
\* the curr_stims == 3 branch
full_item_set_3 ==
    << << "Animal_Yellow", "Animal_Blue", "Animal_Green", "Scene_Yellow", "Scene_Blue", "Food_Yellow" >>,
       << "Food_Green", "Food_Blue", "Food_Red", "Object_Green", "Object_Blue", "Scene_Green" >>,
       << "Scene_Red", "Scene_Yellow", "Scene_Blue", "Animal_Red", "Animal_Yellow", "Object_Red" >>,
       << "Food_Red", "Food_Yellow", "Food_Green", "Object_Red", "Object_Yellow", "Animal_Red" >>,
       << "Animal_Green", "Animal_Red", "Animal_Blue", "Scene_Green", "Scene_Red", "Object_Green" >>,
       << "Food_Green", "Food_Red", "Food_Yellow", "Scene_Green", "Scene_Red", "Animal_Green" >>,
       << "Object_Blue", "Object_Yellow", "Object_Green", "Scene_Blue", "Scene_Yellow", "Food_Blue" >>,
       << "Object_Blue", "Object_Yellow", "Object_Red", "Animal_Blue", "Animal_Yellow", "Food_Blue" >> >>
full_dec_set_3 ==
    << << "Animal", "Blue", "Yellow", "Scene", "Green", "Food" >>,
       << "Food", "Scene", "Blue", "Red", "Green", "Object" >>,
       << "Object", "Blue", "Yellow", "Animal", "Red", "Scene" >>,
       << "Animal", "Red", "Object", "Yellow", "Green", "Food" >>,
       << "Red", "Object", "Green", "Scene", "Blue", "Animal" >>,
       << "Green", "Food", "Red", "Yellow", "Scene", "Animal" >>,
       << "Scene", "Yellow", "Food", "Blue", "Green", "Object" >>,
       << "Blue", "Object", "Yellow", "Animal", "Food", "Red" >> >>
\* the curr_stims == 4 branch
full_item_set_4 ==
    << << "Object_Yellow", "Object_Red", "Object_Green", "Animal_Yellow", "Animal_Red", "Food_Yellow" >>,
       << "Scene_Blue", "Scene_Yellow", "Scene_Green", "Food_Blue", "Food_Yellow", "Object_Blue" >>,
       << "Food_Green", "Food_Red", "Food_Blue", "Scene_Green", "Scene_Red", "Animal_Green" >>,
       << "Animal_Yellow", "Animal_Blue", "Animal_Red", "Scene_Yellow", "Scene_Blue", "Object_Yellow" >>,
       << "Object_Green", "Object_Blue", "Object_Yellow", "Animal_Green", "Animal_Blue", "Food_Green" >>,
       << "Scene_Red", "Scene_Blue", "Scene_Yellow", "Food_Red", "Food_Blue", "Object_Red" >>,
       << "Object_Green", "Object_Blue", "Object_Red", "Animal_Green", "Animal_Blue", "Scene_Green" >>,
       << "Food_Red", "Food_Yellow", "Food_Green", "Animal_Red", "Animal_Yellow", "Scene_Red" >> >>
full_dec_set_4 ==
    << << "Animal", "Green", "Yellow", "Object", "Red", "Food" >>,
       << "Blue", "Yellow", "Green", "Object", "Food", "Scene" >>,
       << "Red", "Animal", "Scene", "Food", "Blue", "Green" >>,
       << "Object", "Red", "Yellow", "Scene", "Animal", "Blue" >>,
       << "Green", "Object", "Food", "Animal", "Blue", "Yellow" >>,
       << "Food", "Object", "Yellow", "Blue", "Red", "Scene" >>,
       << "Object", "Red", "Scene", "Green", "Blue", "Animal" >>,
       << "Green", "Animal", "Scene", "Food", "Yellow", "Red" >> >>
\* the curr_stims == 5 branch
full_item_set_5 ==
    << << "Scene_Blue", "Scene_Yellow", "Scene_Red", "Animal_Blue", "Animal_Yellow", "Food_Blue" >>,
       << "Food_Yellow", "Food_Green", "Food_Red", "Scene_Yellow", "Scene_Green", "Object_Yellow" >>,
       << "Animal_Yellow", "Animal_Blue", "Animal_Green", "Object_Yellow", "Object_Blue", "Food_Yellow" >>,
       << "Object_Red", "Object_Green", "Object_Blue", "Animal_Red", "Animal_Green", "Scene_Red" >>,
       << "Object_Green", "Object_Red", "Object_Yellow", "Scene_Green", "Scene_Red", "Animal_Green" >>,
       << "Food_Blue", "Food_Red", "Food_Green", "Animal_Blue", "Animal_Red", "Scene_Blue" >>,
       << "Scene_Green", "Scene_Blue", "Scene_Yellow", "Object_Green", "Object_Blue", "Food_Green" >>,
       << "Food_Red", "Food_Yellow", "Food_Blue", "Animal_Red", "Animal_Yellow", "Object_Red" >> >>
full_dec_set_5 ==
    << << "Scene", "Red", "Food", "Blue", "Animal", "Yellow" >>,
       << "Red", "Scene", "Food", "Yellow", "Object", "Green" >>,
       << "Blue", "Green", "Animal", "Yellow", "Food", "Object" >>,
       << "Animal", "Object", "Blue", "Scene", "Green", "Red" >>,
       << "Green", "Red", "Yellow", "Animal", "Object", "Scene" >>,
       << "Animal", "Red", "Food", "Scene", "Green", "Blue" >>,
       << "Food", "Blue", "Green", "Object", "Scene", "Yellow" >>,
       << "Animal", "Food", "Blue", "Object", "Red", "Yellow" >> >>

\* get_items_for_games, curr_stims the draw of random.randint(1, 5)
get_items_for_games(curr_stims) ==
    CASE curr_stims = 1 -> <<full_item_set_1, full_dec_set_1>>
      [] curr_stims = 2 -> <<full_item_set_2, full_dec_set_2>>
      [] curr_stims = 3 -> <<full_item_set_3, full_dec_set_3>>
      [] curr_stims = 4 -> <<full_item_set_4, full_dec_set_4>>
      [] curr_stims = 5 -> <<full_item_set_5, full_dec_set_5>>

\* the two word lists initialize_games filters the options by
ColorWords == {"Red", "Yellow", "Blue", "Green"}
CategoryWords == {"Food", "Animal", "Object", "Scene"}

\* the number of games simulate_trials asks initialize_games for
NumGames == 8

\* multiplier_list before the shuffle, and the two lists of multiplier_time
MultiplierList ==
    << "Category", "Category", "Color", "Color",
       "Category", "Category", "Color", "Color" >>
MultiplierTimes ==
    << << "Before", "After", "Before", "After",
          "Before", "After", "Before", "After" >>,
       << "After", "Before", "After", "Before",
          "After", "Before", "After", "Before" >> >>

\* create_game
create_game(game_number_, items_set, values, option_set, multiplier) ==
    [k \in {ToString(game_number_)} |->
        [Pairs |-> items_set, Values |-> values, Options |-> option_set,
         Multiplier |-> multiplier]]

\* a mutant of the option filter: the list is taken whole
option_list_unfiltered(axis, dec_set) == dec_set

\* the option list of one game: the decision set without the four colour
\* words under "Category", without the four category words otherwise
option_list(axis, dec_set) ==
    IF axis = "Category"
    THEN SelectSeq(dec_set, LAMBDA item : item \notin ColorWords)
    ELSE SelectSeq(dec_set, LAMBDA item : item \notin CategoryWords)

\* initialize_games(n_games) under its random draws: curr_stims, the
\* shuffled multiplier_list, the multiplier_time list taken, and the value
\* sets generate_values_set(6) returned, in call order
initialize_games(n_games, curr_stims, multiplier_list, multiplier_time, values) ==
    LET full_item_set == get_items_for_games(curr_stims)
        game(i) ==
            LET curr_mult_list == <<multiplier_list[i], multiplier_time[i]>>
            IN  create_game(i, full_item_set[1][i], values[i],
                            option_list(curr_mult_list[1],
                                        full_item_set[2][i]),
                            curr_mult_list)
    IN  [k \in {ToString(i) : i \in 1 .. n_games} |->
            LET i == CHOOSE j \in 1 .. n_games : ToString(j) = k
            IN  game(i)[k]]

(***************************************************************************)
(* Trial Orchestrator                                                      *)
(***************************************************************************)
RECURSIVE find(_, _, _)
\* the first position from p on at which str holds sep, 0 if none
find(str, sep, p) ==
    IF p > Len(str) THEN 0
    ELSE IF SubSeq(str, p, p) = sep THEN p
    ELSE find(str, sep, p + 1)

RECURSIVE split(_, _)
\* str.split(sep) for a one-character separator
split(str, sep) ==
    IF find(str, sep, 1) = 0 THEN <<str>>
    ELSE CHOOSE parts \in
            {<<SubSeq(str, 1, p - 1)>>
                \o split(SubSeq(str, p + 1, Len(str)), sep) :
                p \in {find(str, sep, 1)}} : TRUE

RECURSIVE track_feats(_, _, _, _)
\* for feat in [feat_type, feat_color]: if feat in options: ...
track_feats(tv, feats, reward, options) ==
    IF feats = <<>> THEN tv
    ELSE LET feat == Head(feats)
             seen == IF feat \in DOMAIN tv THEN tv
                     ELSE [f \in DOMAIN tv \cup {feat} |->
                             IF f = feat THEN 0 ELSE tv[f]]
         IN  track_feats(IF feat \in Range(options)
                         THEN [seen EXCEPT ![feat] = @ + reward]
                         ELSE tv,
                         Tail(feats), reward, options)

\* a mutant of the per-item update: only the type word is tracked
track_item_type_only(tv, item, reward, options) ==
    track_feats(tv, <<split(item, "_")[1]>>, reward, options)

\* one round of the loop over the pairs: the update of true_values
track_item(tv, item, reward, options) ==
    track_feats(tv, split(item, "_"), reward, options)

RECURSIVE compute_true_values(_, _, _, _, _)
\* the loop over range(len(pairs)), from round i on
compute_true_values(tv, pairs, values, options, i) ==
    IF i > Len(pairs) THEN tv
    ELSE compute_true_values(track_item(tv, pairs[i], values[i], options),
                             pairs, values, options, i + 1)

\* the list episodes the loop over the pairs builds
trial_episodes(pairs, values) ==
    [i \in 1 .. Len(pairs) |->
        LET feats == split(pairs[i], "_")
        IN  Episode(<<feats[1], feats[2]>>, values[i])]

\* a mutant of the reset: the old episodes are kept
reset_episodes_skipped(old) == old

\* episodic.episodes = []
reset_episodes(old) == <<>>

\* feature_based.feature_values = {}
reset_feature_values(old) == EmptyMap

RECURSIVE ep_encode_all(_, _)
\* episodic.encode over the list episodes, in order
ep_encode_all(eps, log) ==
    IF log = <<>> THEN eps
    ELSE ep_encode_all(ep_encode(eps, Head(log).item_features,
                                 Head(log).reward),
                       Tail(log))

RECURSIVE fb_encode_list(_, _)
\* feature_based.encode over the list episodes, in order
fb_encode_list(fv, log) ==
    IF log = <<>> THEN fv
    ELSE fb_encode_list(fb_encode(fv, Head(log).item_features,
                                  Head(log).reward),
                        Tail(log))

\* the game the trial sampled and its fields
Game == games[ToString(game_number)]
pairs == Game.Pairs
values == Game.Values
options == Game.Options

\* the bound on the number of trials run
MaxTrials == 2

\* the random inputs the trials are driven with: two arrangements of the
\* shuffled multiplier list that between them put either axis at every
\* place, each with one of the two timing lists
ShuffleSamples ==
    { [list |-> MultiplierList, time |-> MultiplierTimes[1]],
      [list |-> [i \in 1 .. 8 |-> MultiplierList[((i + 1) % 8) + 1]],
       time |-> MultiplierTimes[2]] }

\* value sets that generate_values_set(6) can return, dealt to the eight
\* games from a rotating start
ValueSamples ==
    << <<-1, -1, -1, 2, 2, 2>>, <<-2, 1, 2, -2, 1, -1>>,
       <<-1, 1, 1, -1, 2, -1>>, <<1, 2, -1, -2, -1, 2>>,
       <<-2, -1, -2, 1, 2, 2>>, <<-2, -1, 1, 2, 2, -2>>,
       <<2, -1, 1, 2, -1, -1>>, <<1, -1, -2, 2, -1, 2>> >>
NumValueTables == 1
ValueTables ==
    {[g \in 1 .. 8 |-> ValueSamples[((g + r) % 8) + 1]] :
        r \in 0 .. NumValueTables - 1}

\* the draws one round of the options loop makes: the recall permutation,
\* the raw draws of the episodic decide, the uniform draw of the feature
\* decide
DecideDraws ==
    { [backward |-> FALSE, raw |-> 0, u |-> 5000],
      [backward |-> TRUE, raw |-> 1, u |-> 995000] }

\* the sampled permutation of n indices: as stored, or back to front
sample_order(backward, n) ==
    [i \in 1 .. n |-> IF backward THEN n + 1 - i ELSE i]

\* one trial up to the options loop: the game table, the sampled game, the
\* true values, the reset of both models and the encoding of the episodes
TrialSetup(curr_stims, shuffle, value_table, gn) ==
    /\ trial_pc = "start"
    /\ trial < MaxTrials
    /\ {g \in 1 .. NumGames :
          ~ ( /\ value_table[g] \in generate_random_sub_array(NumValues)
              /\ is_valid_values_set(value_table[g], NumValues) )} = {}
    /\ trial' = trial + 1
    /\ games' = initialize_games(NumGames, curr_stims, shuffle.list,
                                 shuffle.time, value_table)
    /\ game_number' = gn
    /\ \E game \in {games'[ToString(gn)]} :
         \E eps \in {trial_episodes(game.Pairs, game.Values)} :
           /\ true_values' = compute_true_values(EmptyMap, game.Pairs,
                                                 game.Values, game.Options, 1)
           /\ episodes' = ep_encode_all(reset_episodes(episodes), eps)
           /\ feature_values' =
                fb_encode_list(reset_feature_values(feature_values), eps)
           /\ fb_encoded' = eps
           /\ trial_pc' = IF game.Options = <<>> THEN "start" ELSE "options"
    /\ fb_call' = NoCall
    /\ opt_idx' = 0
    /\ rows_before' = Len(episodic_results)
    /\ UNCHANGED <<episodic, offer_feature, recall_order, stream, frame,
                   first_run, recalled_value, episodic_results,
                   feature_results, genVars, beta>>

\* a mutant of the feature row: it carries the feature model's own sum (in
\* tenths, the unit of summed values)
own_feature_sum(episodic_value, fv, feature) ==
    IF feature \in DOMAIN fv THEN 10 * fv[feature] ELSE 0

\* 'recalled_value': recalled_value in the feature row: the local the
\* episodic decide of the same round assigned; feature_values is not read
feature_row_recalled_value(episodic_value, fv, feature) == episodic_value

\* one round of the options loop: both models decide on the feature and a
\* row is appended for each; true_values[feature] of a feature that is no
\* key raises KeyError before any row is appended
TrialOption(draws) ==
    /\ trial_pc = "options"
    /\ \E feature \in {options[opt_idx + 1]},
          order \in {sample_order(draws.backward, Len(episodes))},
          raws \in {[i \in 1 .. 2 * Len(episodes) |-> draws.raw]} :
       \E offer \in {<<feature, "">>} :
       \E fr \in {decide_loop(episodic, episodes, offer, order,
                              decide_begin(episodic), raws)} :
       \E d \in {decide_result(fr)},
          f \in {fb_decide(feature_values, beta, offer, draws.u)} :
           /\ offer_feature' = offer
           /\ recall_order' = order
           /\ stream' = SubSeq(raws, 1, fr.pos)
           /\ frame' = fr
           /\ recalled_value' = d.summed_value
           /\ IF feature \in DOMAIN true_values
              THEN /\ episodic_results' = Append(episodic_results,
                        [model |-> "episodic", feature |-> feature,
                         choice |-> d.choice, rt |-> d.rt,
                         n_memories |-> d.n_recalled,
                         true_value |-> true_values[feature],
                         recalled_value |-> recalled_value',
                         game_number |-> game_number])
                   /\ fb_call' = [made |-> TRUE, offer |-> offer,
                                  u |-> draws.u, before |-> feature_values,
                                  choice |-> f.choice, rt |-> f.rt]
                   /\ feature_values' = f.feature_values
                   /\ feature_results' = Append(feature_results,
                        [model |-> "feature", feature |-> feature,
                         choice |-> f.choice, rt |-> f.rt,
                         true_value |-> true_values[feature],
                         recalled_value |->
                             feature_row_recalled_value(recalled_value',
                                 feature_values, feature),
                         game_number |-> game_number])
                   /\ opt_idx' = opt_idx + 1
                   /\ trial_pc' = IF opt_idx + 1 = Len(options)
                                  THEN "start" ELSE "options"
              ELSE /\ trial_pc' = "error"
                   /\ UNCHANGED <<episodic_results, feature_results,
                                  fb_call, feature_values, opt_idx>>
    /\ UNCHANGED <<episodic, episodes, first_run, trial, games, game_number,
                   true_values, rows_before, fb_encoded, beta, genVars>>

(***************************************************************************)
(* Initial states and specifications                                       *)
(***************************************************************************)
InitGen ==
    /\ gen_pc = "idle"
    /\ values_set = <<>>
    /\ gen_rejected = FALSE

\* FeatureBasedModel.__init__
InitFB(betas) ==
    /\ beta \in betas
    /\ feature_values = EmptyMap
    /\ fb_encoded = <<>>
    /\ fb_call = NoCall

\* EpisodicModel.__init__
InitEp(settings) ==
    /\ episodic \in settings
    /\ episodes = <<>>
    /\ offer_feature = <<>>
    /\ recall_order = <<>>
    /\ stream = <<>>
    /\ frame = Idle
    /\ first_run = NoRun

\* simulate_trials before its first trial
InitTrial ==
    /\ trial = 0
    /\ trial_pc = "start"
    /\ games = <<>>
    /\ game_number = 0
    /\ true_values = EmptyMap
    /\ opt_idx = 0
    /\ recalled_value = 0
    /\ episodic_results = <<>>
    /\ feature_results = <<>>
    /\ rows_before = 0

\* the models as simulate_trials constructs them
Init == InitGen /\ InitFB({5}) /\ InitEp({TrialParams}) /\ InitTrial

\* the value-set generator, called again and again
NextValues == GenCall \/ GenDraw \/ GenAccept \/ GenReject
SpecValues == Init /\ [][NextValues]_vars

\* Fair random draws: the loop goes on, and a candidate that passes the
\* test, having a positive probability at every draw, is drawn in the end.
FairSpecValues ==
    /\ SpecValues
    /\ WF_vars(GenAccept)
    /\ WF_vars(GenReject)
    /\ SF_vars(GenDraw /\ is_valid_values_set(values_set', NumValues))

\* the feature model alone, under any encode and decide calls
InitFeature == InitGen /\ InitFB(FBBetas) /\ InitEp({TrialParams}) /\ InitTrial
NextFeature ==
    \/ \E item_features \in FBPairs, reward \in FBRewards :
         FBEncode(item_features, reward)
    \/ \E offer \in FBOffers, u \in FBUniforms : FBDecide(offer, u)
SpecFeature == InitFeature /\ [][NextFeature]_vars

\* the episodic model alone: episodes are encoded, decide runs, and then
\* runs once more from the same seed under other stopping parameters
InitEpisodic == InitGen /\ InitFB({5}) /\ InitEp(ParamSettings) /\ InitTrial
NextEpisodic ==
    \/ \E e \in EpisodeSamples : EpEncode(e.item_features, e.reward)
    \/ \E offer \in OfferSamples, order \in permutation(Len(episodes)) :
         EpDecideCall(offer, order)
    \/ EpDecideStep
    \/ \E p_stop \in StopProbabilities,
          max_decision_time \in MaxDecisionTimes :
         EpRerun(p_stop, max_decision_time)
SpecEpisodic == InitEpisodic /\ [][NextEpisodic]_vars

\* simulate_trials: trial after trial
NextTrials ==
    \/ \E curr_stims \in 1 .. 5, shuffle \in ShuffleSamples,
          value_table \in ValueTables, gn \in 1 .. NumGames :
         TrialSetup(curr_stims, shuffle, value_table, gn)
    \/ \E draws \in DecideDraws : TrialOption(draws)
SpecTrials == Init /\ [][NextTrials]_vars

\* every array generate_values_set(6) can return
ValidValueSets == generate_values_set(NumValues)

\* simulate_trials: one trial, over every catalog configuration, every game
\* number and every array generate_values_set(6) can return for the sampled
\* game (the other games of the table, which the trial never reads, are
\* given the same array)
NextCatalog ==
    \/ /\ trial = 0
       /\ \E curr_stims \in 1 .. 5, shuffle \in ShuffleSamples,
             v \in ValidValueSets, gn \in 1 .. NumGames :
            TrialSetup(curr_stims, shuffle, [g \in 1 .. NumGames |-> v], gn)
    \/ \E draws \in DecideDraws : TrialOption(draws)
SpecCatalog == Init /\ [][NextCatalog]_vars

(***************************************************************************)
(* Properties                                                              *)
(***************************************************************************)
Max(a, b) == IF a >= b THEN a ELSE b

\* the index groups of the six partial sums: v0+v1+v2, v3+v4, v5,
\* v0+v3+v5, v1+v4, v2
SumGroups == {{1, 2, 3}, {4, 5}, {6}, {1, 4, 6}, {2, 5}, {3}}

\* C1: a value set returned by generate_values_set(6) has exactly 6 entries,
\* each in {-2,-1,1,2}, exactly 3 positive and exactly 3 negative, and of
\* its six partial sums at least one is negative, at least one is positive
\* and none is zero.
C1_ReturnedValueSet ==
    gen_pc = "returned" =>
        /\ DOMAIN values_set = 1 .. 6
        /\ \A i \in 1 .. 6 : values_set[i] \in {-2, -1, 1, 2}
        /\ Cardinality({i \in 1 .. 6 : values_set[i] > 0}) = 3
        /\ Cardinality({i \in 1 .. 6 : values_set[i] < 0}) = 3
        /\ \E g \in SumGroups : SumSet(values_set, g) < 0
        /\ \E g \in SumGroups : SumSet(values_set, g) > 0
        /\ \A g \in SumGroups : SumSet(values_set, g) # 0

C1_Witness ==
    /\ gen_pc = "returned"
    /\ values_set[1] = 2
    /\ values_set[6] = -2

\* C7: the loop of generate_values_set(6) has no retry cap and terminates
\* under fair draws: some array passes is_valid_values_set, every call
\* returns in the end, and each round returns its candidate exactly when
\* is_valid_values_set accepts it and goes round again when it does not.
C7_LoopReturnsFirstAccepted ==
    /\ \E a \in generate_random_sub_array(6) : is_valid_values_set(a, 6)
    /\ (gen_pc = "draw") ~> (gen_pc = "returned")
    /\ [][gen_pc = "check" =>
            IF is_valid_values_set(values_set, 6)
            THEN gen_pc' = "returned" /\ values_set' = values_set
            ELSE gen_pc' = "draw"]_vars

C7_Witness == gen_pc = "returned" /\ gen_rejected

\* the labels a feature map is asked about
Labels == FBLabels \cup {fb_encoded[i].item_features[j] :
                            i \in DOMAIN fb_encoded, j \in 1 .. 2}

RECURSIVE fb_encode_all(_, _)
\* the map after encoding the calls of log into fv, in order
fb_encode_all(fv, log) ==
    IF log = <<>> THEN fv
    ELSE fb_encode_all(fb_encode(fv, Head(log).item_features, Head(log).reward),
                       Tail(log))

\* every reordering of the same encode calls ends in the map held
ReorderingsAgree ==
    \A o \in permutation(Len(fb_encoded)) :
        fb_encode_all(EmptyMap, [i \in DOMAIN fb_encoded |-> fb_encoded[o[i]]])
            = feature_values

\* the encoded episodes whose pair contains F
Containing(F) ==
    {i \in DOMAIN fb_encoded : F \in Range(fb_encoded[i].item_features)}

\* C4 as stated: from an empty map, feature_values[F] is the sum of the
\* rewards of the encoded episodes whose pair contains F, each counted once,
\* and the map is the same for every reordering of the calls.
C4_EachEpisodeOnce ==
    /\ \A F \in Labels :
         /\ F \in DOMAIN feature_values <=> Containing(F) # {}
         /\ F \in DOMAIN feature_values =>
              feature_values[F] =
                  SumSet([i \in DOMAIN fb_encoded |-> fb_encoded[i].reward],
                         Containing(F))
    /\ ReorderingsAgree

\* C4 amended: feature_values[F] is the sum over the encoded episodes of the
\* reward times the number of positions of the pair that hold F (once for a
\* pair of two different labels, twice for the pair (F, F)), F is a key
\* exactly when some encoded pair contains it, and the map is the same for
\* every reordering of the calls.
C4_SumPerOccurrence ==
    /\ \A F \in Labels :
         /\ F \in DOMAIN feature_values <=> Containing(F) # {}
         /\ F \in DOMAIN feature_values =>
              feature_values[F] =
                  SumSet([i \in DOMAIN fb_encoded |->
                            fb_encoded[i].reward
                              * Cardinality({j \in 1 .. 2 :
                                    fb_encoded[i].item_features[j] = F})],
                         DOMAIN fb_encoded)
    /\ ReorderingsAgree

C4_Witness ==
    /\ Len(fb_encoded) = 3
    /\ "Food" \in DOMAIN feature_values
    /\ feature_values["Food"] = 3
    /\ fb_encoded[1].item_features = <<"Food", "Blue">>
    /\ fb_encoded[3].item_features = <<"Blue", "Food">>
    /\ fb_encoded[1].reward # fb_encoded[3].reward

\* C10: decide uses the first element of the offer pair that is a key of
\* the map, draws the choice from the logistic probability of its value,
\* uses the second element only when the first is no key, returns choice 0
\* when neither is, returns response time 2 in every case and leaves the
\* map as it was.
C10_FirstKnownElementDecides ==
    fb_call.made =>
        LET o == fb_call.offer
            m == fb_call.before
            drawn(F) == IF fb_call.u < Logistic(beta * m[F]) THEN 1 ELSE 0
        IN  /\ fb_call.rt = 2
            /\ feature_values = m
            /\ fb_call.choice =
                 IF o[1] \in DOMAIN m THEN drawn(o[1])
                 ELSE IF o[2] \in DOMAIN m THEN drawn(o[2])
                 ELSE 0

C10_Witness ==
    /\ fb_call.made
    /\ fb_call.offer = <<"Food", "Blue">>
    /\ DOMAIN feature_values = {"Food", "Blue"}
    /\ feature_values["Food"] < 0
    /\ feature_values["Blue"] > 0
    /\ fb_call.u = 500000
    /\ fb_call.choice = 0

\* how the loop of decide commits recalls: no committed recall leaves the
\* elapsed time above max_decision_time, and the time test ends the loop
\* only when one more recall would go strictly above it (a recall that
\* reaches it exactly is committed)
CommitRule ==
    /\ frame.n_recalled > 0 =>
         frame.elapsed_time <= episodic.max_decision_time
    /\ frame.broke = "time" =>
         /\ frame.elapsed_time + episodic.recall_time
              > episodic.max_decision_time
         /\ frame.k = frame.n_recalled

\* C5 as stated: for every parameter setting the elapsed time decide returns
\* is at least non_decision_time and at most max_decision_time plus one
\* recall_time; a recall that would go strictly above max_decision_time is
\* not committed, one that reaches it exactly is.
C5_ElapsedWithinBudget ==
    frame.pc = "done" =>
        /\ frame.elapsed_time >= episodic.non_decision_time
        /\ frame.elapsed_time
             <= episodic.max_decision_time + episodic.recall_time
        /\ CommitRule

\* C5 amended: for every setting with recall_time >= 0 the elapsed time
\* decide returns is at least non_decision_time and at most the larger of
\* non_decision_time and max_decision_time (so at most max_decision_time
\* plus one recall_time whenever non_decision_time is); the rule on
\* committing recalls is as stated.
C5_ElapsedWithinBudgetOrLatency ==
    frame.pc = "done" =>
        /\ frame.elapsed_time >= episodic.non_decision_time
        /\ frame.elapsed_time
             <= Max(episodic.non_decision_time, episodic.max_decision_time)
        /\ episodic.non_decision_time
             <= episodic.max_decision_time + episodic.recall_time
             => frame.elapsed_time
                  <= episodic.max_decision_time + episodic.recall_time
        /\ CommitRule

C5_Witness ==
    /\ frame.pc = "done"
    /\ frame.n_recalled = 2
    /\ frame.elapsed_time = episodic.max_decision_time

\* C6: decide((F, "")) with stop probability 0, a time budget that never
\* binds and zero recall noise recalls every stored episode, whatever the
\* recall permutation, and returns the plain sum of the rewards of the
\* episodes whose pair contains F or the placeholder; the placeholder
\* matches no episode whose two labels are non-empty, so over such episodes
\* the sum is that of the episodes containing F.
C6_FullRecallExactSum ==
    LET F == offer_feature[1]
        labelled(i) == "" \notin Range(episodes[i].item_features)
        has(i, w) == w \in Range(episodes[i].item_features)
        reward == [i \in DOMAIN episodes |-> episodes[i].reward]
    IN  ( /\ frame.pc = "done"
          /\ episodic.p_stop = 0
          /\ episodic.recall_noise = 0
          /\ episodic.non_decision_time + Len(episodes) * episodic.recall_time
               <= episodic.max_decision_time
          /\ F # ""
          /\ offer_feature[2] = "" )
        => /\ frame.n_recalled = Len(episodes)
           /\ frame.summed_value =
                10 * SumSet(reward, {i \in DOMAIN episodes :
                                        has(i, F) \/ has(i, "")})
           /\ (\A i \in DOMAIN episodes : labelled(i)) =>
                frame.summed_value =
                    10 * SumSet(reward, {i \in DOMAIN episodes : has(i, F)})
           /\ \A i \in DOMAIN episodes :
                labelled(i) => ~ matches(<<"", "">>, episodes[i])

C6_Witness ==
    /\ frame.pc = "done"
    /\ episodic.p_stop = 0
    /\ episodic.recall_noise = 0
    /\ offer_feature = <<"Food", "">>
    /\ episodes = << Episode(<<"Food", "Blue">>, 2),
                     Episode(<<"Animal", "Blue">>, -1) >>
    /\ recall_order = <<2, 1>>
    /\ frame.n_recalled = 2
    /\ frame.summed_value = 20

\* C9: decide run twice on the same episodes and offer from the same seed
\* (same permutation, same stream of draws): when the second run's stop
\* probability is no larger and its max decision time no smaller, it
\* recalls at least as many episodes as the first.
C9_LooserRecallsNoFewer ==
    ( /\ first_run.made
      /\ frame.pc = "done"
      /\ episodic.p_stop <= first_run.params.p_stop
      /\ episodic.max_decision_time >= first_run.params.max_decision_time )
    => frame.n_recalled >= first_run.result.n_recalled

C9_Witness ==
    /\ first_run.made
    /\ frame.pc = "done"
    /\ episodic.p_stop < first_run.params.p_stop
    /\ episodic.max_decision_time > first_run.params.max_decision_time
    /\ first_run.result.n_recalled = 1
    /\ frame.n_recalled = 2

\* the rows the running (or just finished) trial has appended to a list
TrialRows(results) == SubSeq(results, rows_before + 1, Len(results))

\* every item string of the catalog
CatalogItems ==
    UNION {Range(get_items_for_games(c)[1][g]) :
             c \in 1 .. 5, g \in 1 .. NumGames}

\* what split gives for every item string of the catalog
ItemWords == [item \in CatalogItems |-> split(item, "_")]

\* the type word and the colour word of every item of the sampled game
PairWords == [j \in DOMAIN pairs |-> ItemWords[pairs[j]]]

\* the items that carry the word w, given the words of every item
ItemsWithIn(words, w) == {j \in DOMAIN words : w \in Range(words[j])}

\* the items of the sampled game that carry the word w as type or colour
ItemsWith(w) == ItemsWithIn(PairWords, w)

\* the sum of the rewards of the items that carry the word w
RewardSumIn(words, w) == SumSet(values, ItemsWithIn(words, w))

\* C2 as stated: every game of every table built by initialize_games(8)
\* has an Options list of length 6, and one trial appends exactly 6
\* episodic rows and 6 feature rows, one per option.
C2_SixOptionsSixRows ==
    /\ \A k \in DOMAIN games : Len(games[k].Options) = 6
    /\ (trial > 0 /\ trial_pc = "start") =>
         /\ Len(TrialRows(episodic_results)) = 6
         /\ Len(TrialRows(feature_results)) = 6

\* C2 amended: every game of every table built by initialize_games(8), in
\* every catalog configuration and for either axis, has an Options list of
\* length 3 (the three category words of its decision set under
\* "Category", the three colour words under "Color"), and one trial
\* appends exactly 3 episodic rows and 3 feature rows, one per option of
\* the sampled game, in the order of the list.
C2_ThreeOptionsThreeRows ==
    /\ \A k \in DOMAIN games :
         /\ Len(games[k].Options) = 3
         /\ Range(games[k].Options) \subseteq
              (IF games[k].Multiplier[1] = "Category"
               THEN CategoryWords ELSE ColorWords)
    /\ (trial > 0 /\ trial_pc = "start") =>
         /\ Len(TrialRows(episodic_results)) = 3
         /\ Len(TrialRows(feature_results)) = 3
         /\ \A i \in 1 .. 3 :
              /\ TrialRows(episodic_results)[i].feature = options[i]
              /\ TrialRows(feature_results)[i].feature = options[i]

C2_Witness ==
    /\ trial = 2
    /\ trial_pc = "start"
    /\ Len(episodic_results) = 6
    /\ Len(feature_results) = 6
    /\ Game.Multiplier[1] = "Color"
    /\ episodic_results[1].feature \in CategoryWords

\* C3: in every result row of a trial, true_value is the sum of the rewards
\* of the items of the sampled game whose type word or colour word is the
\* row's feature, and true_values has a key for every option (the lookup
\* never fails).
C3_TrueValueIsFeatureSum ==
    /\ trial_pc # "error"
    /\ trial > 0 =>
         \A words \in {PairWords} :
         \A sums \in {[w \in Range(options) |-> RewardSumIn(words, w)]} :
            /\ \A w \in Range(options) :
                 w \in DOMAIN true_values /\ ItemsWithIn(words, w) # {}
            /\ \A i \in rows_before + 1 .. Len(episodic_results) :
                 /\ episodic_results[i].feature \in DOMAIN sums
                 /\ episodic_results[i].true_value
                      = sums[episodic_results[i].feature]
            /\ \A i \in rows_before + 1 .. Len(feature_results) :
                 /\ feature_results[i].feature \in DOMAIN sums
                 /\ feature_results[i].true_value
                      = sums[feature_results[i].feature]

C3_Witness ==
    /\ trial_pc = "start"
    /\ Len(feature_results) = 3
    /\ feature_results[1].feature \in ColorWords
    /\ feature_results[1].true_value = 3
    /\ feature_results[2].true_value < 0
    /\ Cardinality(ItemsWith(feature_results[1].feature)) = 3

\* C8: nothing of the models persists across trials: whenever a decide call
\* is due in a trial, the episodic model holds exactly the six episodes of
\* that trial's sampled game, in item order, and the feature map holds, for
\* the words of that game's items and for nothing else, the sums of that
\* game's rewards.
C8_ModelsHoldThisTrialOnly ==
    trial_pc = "options" =>
        \A words \in {PairWords} :
            /\ Len(episodes) = 6
            /\ \A j \in 1 .. 6 :
                 /\ episodes[j].reward = values[j]
                 /\ episodes[j].item_features = words[j]
            /\ DOMAIN feature_values =
                 UNION {Range(words[j]) : j \in DOMAIN words}
            /\ \A w \in DOMAIN feature_values :
                 feature_values[w] = RewardSumIn(words, w)

C8_Witness ==
    /\ trial = 2
    /\ trial_pc = "options"
    /\ opt_idx = 1
    /\ episodic_results[1].game_number # game_number
    /\ episodes[1].item_features[1] \notin
         {episodic_results[i].feature : i \in 1 .. 3}

\* C11: in every trial and for every option, the recalled_value of the
\* feature row is the summed value the episodic decide returned for the
\* same feature in the same trial, which is the recalled_value of the
\* episodic row at the same position, whatever the feature model's own
\* sum for the feature is.
C11_FeatureRowCarriesEpisodicValue ==
    /\ Len(feature_results) = Len(episodic_results)
    /\ \A i \in DOMAIN feature_results :
         /\ feature_results[i].feature = episodic_results[i].feature
         /\ feature_results[i].game_number = episodic_results[i].game_number
         /\ feature_results[i].recalled_value
              = episodic_results[i].recalled_value
    /\ (trial > 0 /\ opt_idx > 0) =>
         /\ frame.pc = "done"
         /\ offer_feature = <<options[opt_idx], "">>
         /\ feature_results[Len(feature_results)].feature = options[opt_idx]
         /\ feature_results[Len(feature_results)].recalled_value
              = frame.summed_value

C11_Witness ==
    /\ trial = 2
    /\ opt_idx = 2
    /\ options[opt_idx] \in DOMAIN feature_values
    /\ feature_values[options[opt_idx]] < 0
    /\ feature_results[Len(feature_results)].recalled_value > 0
    /\ episodic_results[Len(episodic_results)].n_memories = 4
    /\ episodic_results[1].recalled_value # feature_results[5].recalled_value

\* the index groups of the six sums, in the order of partial_sums
GroupSeq == << {1, 2, 3}, {4, 5}, {6}, {1, 4, 6}, {2, 5}, {3} >>

\* C12: in every catalog game the six sums is_valid_values_set checks are
\* the per-feature reward sums of the game's three type words (items 1-3,
\* 4-5 and 6 share a type) and three colour words (items {1,4,6}, {2,5} and
\* {3} share a colour), so true_value is nonzero in every row.
C12_SumsAreFeatureSums ==
    /\ trial_pc # "error"
    /\ trial > 0 =>
         \A words \in {PairWords} :
         \A sums \in {partial_sums(values)} :
         \A group \in {[w \in UNION {Range(words[j]) : j \in 1 .. 6} |->
                           ItemsWithIn(words, w)]} :
            /\ {group[words[j][1]] : j \in 1 .. 6}
                 = {GroupSeq[i] : i \in 1 .. 3}
            /\ {group[words[j][2]] : j \in 1 .. 6}
                 = {GroupSeq[i] : i \in 4 .. 6}
            /\ \A i \in 1 .. 6 :
                 \E w \in DOMAIN group :
                    /\ group[w] = GroupSeq[i]
                    /\ SumSet(values, group[w]) = sums[i]
            /\ \A w \in DOMAIN true_values :
                 /\ true_values[w] # 0
                 /\ \E i \in 1 .. 6 :
                      /\ group[w] = GroupSeq[i]
                      /\ true_values[w] = sums[i]
            /\ \A i \in rows_before + 1 .. Len(episodic_results) :
                 episodic_results[i].true_value # 0
            /\ \A i \in rows_before + 1 .. Len(feature_results) :
                 feature_results[i].true_value # 0

C12_Witness ==
    /\ trial = 1
    /\ trial_pc = "start"
    /\ values = <<-2, -2, -1, 2, 1, 2>>
    /\ Len(feature_results) = 3
    /\ feature_results[1].true_value = -5
    /\ feature_results[1].feature \in CategoryWords

=============================================================================
